---- MODULE Spec2Model ----
(***************************************************************************)
(* Model of the Personal-Time-Manager-Misc background worker:              *)
(*   __main__.main_routine          the listen / dispatch loop             *)
(*   HandleTimeTable                trigger validation and orchestration   *)
(*   HandleTuitionGoogleCalendarEvents  the calendar clear-and-replace     *)
(*   DatabaseHandler                the store (timetable_runs,             *)
(*                                  calendar_events)                       *)
(*   GoogleCalendarManager          the calendar gateway                   *)
(*                                                                         *)
(* Strings the code inspects character by character (entry names, event    *)
(* summaries) are sequences of one-character strings.  A calendar event    *)
(* stands for one created event (series) inside the listing window.        *)
(***************************************************************************)
EXTENDS Integers, Sequences, FiniteSets, TLC

VARIABLES
    runs,             \* table timetable_runs, in insertion order (id = position)
    calendar,         \* the events held by the external calendar
    mapping,          \* table calendar_events, in insertion order
    nextId,           \* next identifier the calendar API hands out
    pending,          \* notifications arrived at the connection, not yet read
    notifies,         \* conn.notifies: notifications read, not yet consumed
    checked_out,      \* number of pool connections checked out
    peak_out,         \* the most connections ever checked out at once
    subtasks,         \* the sync sub-tasks started for the current trigger
    delete_status,    \* HTTP status of the last delete_event call
    delete_returned,  \* what the last delete_event call returned
    handler,          \* DatabaseHandler: the class's instance and its pool
    interrupted_at,   \* the position at which KeyboardInterrupt arrived
    subscribed,       \* the pool's connection has executed LISTEN
    mpc,              \* position of a HandleTuitionMeetings sync
    tuitions,         \* table tuitions: the column meeting_link of each row
    zoom,             \* the meetings held by the meeting account
    zoom_next,        \* next identifier the meeting API hands out
    timetable_data,   \* HandleTuitionMeetings.timetable_data
    existing_tuitions,  \* HandleTuitionMeetings.existing_tuitions
    scheduled_tuitions, \* HandleTuitionMeetings.scheduled_tuitions
    midx,             \* loop index of _sync_meetings
    now,              \* the current time
    new_meeting,      \* _sync_meetings: meeting_id of creation_result
    mlog,             \* the gateway and store writes of the meeting sync, in order
    occurrences,      \* what the calendar lists for list_unique_events
    unique_series,    \* list_unique_events: unique_event_series
    listed,           \* list_unique_events has returned
    constructions,    \* the DatabaseHandler() calls made outside the worker
    sent,             \* number of notifications sent so far
    pc,               \* position of the worker
    trigger,          \* HandleTimeTable.channel / .payload
    is_valid_trigger, \* HandleTimeTable.is_valid_trigger
    query_ok,         \* whether the store query of the last validation succeeded
    cycle,            \* number of run_sync calls started
    events_to_delete, \* clean_up_prev_tuition_events: events_to_delete
    latest_run_id,    \* run_sync: latest_run_id
    tuition_events,   \* run_sync: tuition_events
    idx,              \* loop index of the delete loop / the create loop
    success_count,    \* run_sync: success_count
    fail_count,       \* run_sync: fail_count
    attempts,         \* what happened to each entry of the create loop
    faults,           \* number of failed gateway / store calls so far
    last,             \* how the most recent sync, or the worker, ended
    prevCal           \* the calendar when the current cycle started

workerVars == <<runs, calendar, mapping, nextId, pending, sent, pc, trigger,
          is_valid_trigger, query_ok, cycle, events_to_delete, latest_run_id,
          tuition_events, idx, success_count, fail_count, attempts, faults,
          last, prevCal, notifies, checked_out, peak_out, subtasks,
          delete_status, delete_returned, handler, interrupted_at,
          subscribed>>

partVars == <<mpc, tuitions, zoom, zoom_next, timetable_data,
              existing_tuitions, scheduled_tuitions, midx, now, new_meeting,
              mlog, occurrences, unique_series, listed, constructions>>

vars == <<workerVars, partVars>>

----------------------------------------------------------------------------
(* Bounds of the model *)

MaxTriggers == 2
MaxFaults == 2
MaxConstructions == 2

----------------------------------------------------------------------------
(* common/config.py *)

DB_EVENT_CHANNEL == "timetable_run_changed"
MANUAL_TRIGGER_CHANNEL == "manual-ptm-misc-trigger"
VALID_RUN_STATUSES == {"SUCCESS", "MANUAL"}

\* database/db_handler.py: SimpleConnectionPool(minconn=1, maxconn=5, ...)
maxconn == 5

\* Python's None for a run id (ids of a SERIAL column start at 1)
None == 0

----------------------------------------------------------------------------
(* Strings as sequences of characters *)

TuitionPrefix == <<"T", "u", "i", "t", "i", "o", "n", " ">>

\* str.startswith
StartsWith(s, p) == Len(s) >= Len(p) /\ SubSeq(s, 1, Len(p)) = p

\* str.replace('_', ' ')
ReplaceUnderscore(s) == [i \in DOMAIN s |-> IF s[i] = "_" THEN " " ELSE s[i]]

----------------------------------------------------------------------------
(* The authoritative data the model draws from: entries of a run's          *)
(* solution_data, as the JSON objects the code reads with event.get(...)    *)

Name_Math_Tutor == <<"M", "a", "t", "h", "_", "T", "u", "t", "o", "r">>
Name_Tuition_A == <<"T", "u", "i", "t", "i", "o", "n", "_", "A">>
Name_Tuition_B == <<"T", "u", "i", "t", "i", "o", "n", "_", "B">>
Name_Tuition_C == <<"T", "u", "i", "t", "i", "o", "n", "_", "C">>
Name_Gym == <<"G", "y", "m">>

Title_Math_Tutor == <<"M", "a", "t", "h", " ", "T", "u", "t", "o", "r">>
Title_Tuition_Z == <<"T", "u", "i", "t", "i", "o", "n", " ", "Z">>
Title_Physics_Tutor == <<"P", "h", "y", "s", "i", "c", "s", " ", "T", "u", "t", "o", "r">>

\* is_dict: the element is a JSON object; start_time "NULL": the key is
\* missing or unparsable, so that isoparse raises
Entry(id, name, category, start) ==
    [is_dict |-> TRUE, id |-> id, name |-> name, category |-> category,
     start_time |-> start]

E_abc == Entry("abc", Name_Math_Tutor, "Tuition", "2025-01-06T10:00:00")
E_t1 == Entry("t1", Name_Tuition_A, "Tuition", "2025-01-07T10:00:00")
E_t2bad == Entry("t2", Name_Tuition_B, "Tuition", "NULL")
E_t3 == Entry("t3", Name_Tuition_C, "Tuition", "2025-01-08T10:00:00")
E_gym == Entry("g1", Name_Gym, "Other", "2025-01-09T10:00:00")
E_nocat == Entry("n1", Name_Tuition_C, "NONE", "2025-01-09T12:00:00")
E_scalar == [is_dict |-> FALSE, id |-> "", name |-> <<>>, category |-> "NONE",
             start_time |-> "NULL"]

P_scenario == <<E_abc>>
P_mixed == <<E_t1, E_abc, E_gym>>
P_three == <<E_t1, E_t2bad, E_t3>>
P_other == <<E_gym, E_nocat>>
P_empty == <<>>
P_scalar == <<E_scalar>>

Payloads == {P_scenario, P_mixed, P_three, P_other, P_empty, P_scalar}

Statuses == {"SUCCESS", "MANUAL", "FAILED"}

\* a row of timetable_runs; data_null: solution_data IS NULL
Run(status, null, data) ==
    [status |-> status, data_null |-> null, solution_data |-> data]

RunSet ==
    {Run(s, FALSE, p) : s \in Statuses, p \in Payloads}
        \cup {Run(s, TRUE, <<>>) : s \in Statuses}

\* the tables the worker may find: no run, one run, or a run followed by a
\* later failed one
InitRuns ==
    {<<>>} \cup {<<r>> : r \in RunSet}
        \cup {<<Run("SUCCESS", FALSE, P_scenario), Run("FAILED", FALSE, P_mixed)>>,
              <<Run("MANUAL", FALSE, P_mixed), Run("SUCCESS", TRUE, <<>>)>>}

\* an event of the external calendar; key "none": no ptm_event_key;
\* cyc: the cycle that created it (0: it was there before the worker started)
Event(id, summary, key, cyc) ==
    [id |-> id, summary |-> summary, key |-> key, cyc |-> cyc]

\* a row of calendar_events
Row(run_id, key, gid, cyc) ==
    [timetable_run_id |-> run_id, event_key |-> key, google_event_id |-> gid,
     cyc |-> cyc]

\* what the worker may find when it starts: an empty calendar, or one event a
\* prior cycle created (with its mapping row), titled with or without the
\* "Tuition " prefix
InitWorlds ==
    {[calendar |-> {}, mapping |-> <<>>],
     [calendar |-> {Event(1, Title_Tuition_Z, "ptm-tuition-old", 0)},
      mapping |-> <<Row(1, "ptm-tuition-old", 1, 0)>>],
     [calendar |-> {Event(1, Title_Physics_Tutor, "ptm-tuition-xyz", 0)},
      mapping |-> <<Row(1, "ptm-tuition-xyz", 1, 0)>>]}

\* the notifications other processes send: on the automatic channel the
\* table trigger's JSON document or a NOTIFY without payload, on the manual
\* channel an opaque token or a text that happens to be JSON
Notifications ==
    {[channel |-> DB_EVENT_CHANNEL, payload |-> "{\"id\": 1}"],
     [channel |-> DB_EVENT_CHANNEL, payload |-> ""],
     [channel |-> MANUAL_TRIGGER_CHANNEL, payload |-> "sync"],
     [channel |-> MANUAL_TRIGGER_CHANNEL, payload |-> "{\"id\": 1}"]}

----------------------------------------------------------------------------
(* database/db_handler.py *)

Max(S) == CHOOSE m \in S : \A n \in S : n <= m


\* a query without the condition on solution_data
fetch_latest_successful_run_id_AnyPayload(rs, dbok) ==
    LET ok == {i \in DOMAIN rs : rs[i].status \in VALID_RUN_STATUSES}
    IN  IF dbok /\ ok # {} THEN Max(ok) ELSE None

\* SELECT id ... WHERE status IN VALID_RUN_STATUSES AND solution_data IS NOT
\* NULL ORDER BY run_started_at DESC LIMIT 1; dbok: the query succeeded
fetch_latest_successful_run_id(rs, dbok) ==
    LET ok == {i \in DOMAIN rs :
                 rs[i].status \in VALID_RUN_STATUSES /\ ~rs[i].data_null}
    IN  IF dbok /\ ok # {} THEN Max(ok) ELSE None

\* the solution_data of the run, or <<>> for Python's None / a falsy document
fetch_timetable_by_run_id(rs, run_id, dbok) ==
    IF dbok /\ run_id \in DOMAIN rs /\ ~rs[run_id].data_null
    THEN rs[run_id].solution_data
    ELSE <<>>

\* json.loads on the texts of the model: the document of a JSON text, a
\* JSONDecodeError on any other text
json_loads(text) ==
    CASE text = "{\"id\": 1}" -> [raises |-> FALSE, doc |-> [id |-> 1]]
      [] OTHER -> [raises |-> TRUE, doc |-> [id |-> 0]]

\* json.loads raises inside listen_for_notification
DecodeRaises(n) ==
    n.channel = DB_EVENT_CHANNEL /\ json_loads(n.payload).raises


\* a listener that decodes no payload
DecodeNotification_Raw(n) ==
    [channel |-> n.channel, payload |-> [str |-> n.payload]]

\* json.loads of the automatic channel's payload; the manual payload as it is
DecodeNotification(n) ==
    IF n.channel = DB_EVENT_CHANNEL
    THEN [channel |-> n.channel, payload |-> [json |-> json_loads(n.payload).doc]]
    ELSE [channel |-> n.channel, payload |-> [str |-> n.payload]]


\* a listener that gives the connection back only when it returns
ReleaseOnExit_OnReturnOnly(co, raised) == IF raised THEN co ELSE co - 1

\* listen_for_notification, the finally clause: pool.putconn(conn) on every
\* way out of the function
ReleaseOnExit(co, raised) == co - 1


\* a context manager that gives the connection back only after a body that
\* did not raise
get_connection_NoFinally(co, dbok) == IF dbok THEN co ELSE co + 1

\* get_connection: the connections checked out after a `with` block that took
\* one (co + 1 inside the block); the finally clause gives it back also when
\* the body raised a database error
get_connection(co, dbok) == (co + 1) - 1

\* the class before the first construction: _instance is None, no pool
NoHandler == [instances |-> 0, pool |-> FALSE, pools_created |-> 0]

\* the environments of a construction: DATABASE_URL set and the store
\* reachable, DATABASE_URL missing (ValueError), the store unreachable
\* (psycopg2.OperationalError)
Environments == {"ok", "no_url", "unreachable"}


\* a constructor that builds a pool on every call
DatabaseHandler_PoolPerCall(h, env) ==
    [handler |-> [instances |-> IF h.instances = 0 THEN 1 ELSE h.instances,
                  pool |-> h.pool \/ env = "ok",
                  pools_created |-> h.pools_created + (IF env = "ok" THEN 1 ELSE 0)],
     raised |-> env # "ok"]

\* DatabaseHandler(): __new__ makes the instance only when the class has
\* none; __init__ returns at once when the pool exists, raises without
\* DATABASE_URL or when the store is unreachable, and otherwise creates the
\* pool
DatabaseHandler(h, env) ==
    LET made == IF h.instances = 0 THEN 1 ELSE h.instances
    IN  IF h.pool
        THEN [handler |-> [h EXCEPT !.instances = made], raised |-> FALSE]
        ELSE IF env = "ok"
             THEN [handler |-> [instances |-> made, pool |-> TRUE,
                                pools_created |-> h.pools_created + 1],
                   raised |-> FALSE]
             ELSE [handler |-> [h EXCEPT !.instances = made], raised |-> TRUE]

\* the tables of the store the calendar sync works on
Store(rs, rows) == [timetable_runs |-> rs, calendar_events |-> rows]


\* a TRUNCATE that cascades to the runs
clear_calendar_events_Cascade(db, dbok) ==
    IF dbok THEN [timetable_runs |-> <<>>, calendar_events |-> <<>>] ELSE db

\* clear_calendar_events: TRUNCATE TABLE calendar_events RESTART IDENTITY; a
\* database error is logged and leaves the table
clear_calendar_events(db, dbok) ==
    IF dbok THEN [db EXCEPT !.calendar_events = <<>>] ELSE db

\* save_calendar_event_mapping: INSERT INTO calendar_events; a database error
\* is logged and leaves the table
save_calendar_event_mapping(db, row, dbok) ==
    IF dbok THEN [db EXCEPT !.calendar_events = Append(@, row)] ELSE db

NoTrigger == [channel |-> "", payload |-> [str |-> ""]]

----------------------------------------------------------------------------
(* apis/google_calendar_meet.py *)

RECURSIVE SortById(_)
\* the listing in a fixed order
SortById(S) ==
    IF S = {} THEN <<>>
    ELSE LET e == CHOOSE x \in S : \A y \in S : x.id <= y.id
         IN  <<e>> \o SortById(S \ {e})

\* a listing that returns the pages it has read when a later page fails
list_events_Partial(cal, filter_by_key, ok) ==
    IF filter_by_key
    THEN SortById({e \in cal : e.key # "none"})
    ELSE SortById({e \in cal : StartsWith(e.summary, TuitionPrefix)})

\* list_events: with filter_by_key the events carrying ptm_event_key, without
\* it the events whose summary starts with "Tuition "; ok = FALSE: the API
\* call raised, which list_events turns into []
list_events(cal, filter_by_key, ok) ==
    IF ~ok THEN <<>>
    ELSE IF filter_by_key
         THEN SortById({e \in cal : e.key # "none"})
         ELSE SortById({e \in cal : StartsWith(e.summary, TuitionPrefix)})

\* the answers to events().delete: 204 deleted, 404 not found, 410 gone,
\* 500 a server error; 0 stands for an error that is no HTTP response
DeleteResponses == {204, 404, 410, 500, 0}

\* the event is no longer in the calendar after the call
GoneAfter(status) == status \in {204, 404, 410}

\* delete_event: True after a successful call and after an HttpError with
\* status 410, False after any other HttpError; another error is not caught
delete_event(status) ==
    CASE status = 204 -> "True"
      [] status = 410 -> "True"
      [] status = 0 -> "raised"
      [] OTHER -> "False"

----------------------------------------------------------------------------
(* core/calendar_handler.py *)

\* a key built from the entry's category instead of its id
_generate_event_key_ByCategory(event) == "ptm-tuition-" \o event.category

_generate_event_key(event) == "ptm-tuition-" \o event.id

\* a filter that lets every entry through
FilterTuition_All(data) == data

\* event.get("category") == "Tuition"
FilterTuition(data) == SelectSeq(data, LAMBDA e : e.category = "Tuition")

\* the comprehension calls event.get on every element: a non-object raises
FilterRaises(data) == \E i \in DOMAIN data : ~data[i].is_dict

\* isoparse(event.get("start_time")) raises on a missing or malformed time
ParseRaises(event) == event.start_time = "NULL"


\* a loop whose except clause leaves the loop
NextIndexOnError_Break(i, n) == n + 1

\* the except clause of the create loop logs and goes on with the next entry
NextIndexOnError(i, n) == i + 1

\* a run_sync that goes on with an empty timetable
NoTimetable_Never(data) == FALSE

\* run_sync: `if not timetable_data:` logs an error and returns
NoTimetable(data) == data = <<>>

\* run_sync returns to HandleTimeTable, which returns to the main loop
EndOfLoop(i, n) == IF i > n THEN "listen" ELSE "create"

----------------------------------------------------------------------------
(* core/main_handler.py *)

\* _validate_trigger: the trigger is valid when a latest valid run is found
_validate_trigger(rs, dbok) == fetch_latest_successful_run_id(rs, dbok) # None


\* a constructor that does not return on an invalid trigger
AfterValidation_NoReturn(valid) == "sync_init"

\* __init__: an invalid trigger returns at once, a valid one starts the sync
AfterValidation(valid) == IF valid THEN "sync_init" ELSE "listen"


\* a main routine that enters the loop whatever the construction did
AfterStartup_Ignored(raised) == "listen"

\* main_routine: a ValueError or OperationalError of DatabaseHandler() is
\* logged and sys.exit(1) ends the process; otherwise the loop is entered
AfterStartup(raised) == IF raised THEN "exit1" ELSE "listen"


\* a main loop that logs the listener's error and goes round again
AfterListenerError_Retry == "listen"

\* main_routine: an exception out of the loop body is caught by `except
\* Exception`, logged, and sys.exit(1) ends the process
AfterListenerError == "exit1"

\* main_routine: KeyboardInterrupt is caught, logged, and main_routine
\* returns
AfterInterrupt == "exit0"


\* a main loop that hands every result of the listener to HandleTimeTable
AfterListener_NoTest(notification) == "validate"

\* main_routine: `if notification:` skips a None, time.sleep(1) follows, and
\* the loop calls the listener again
AfterListener(notification) == IF notification THEN "validate" ELSE "listen"


\* a main loop that calls the listener again while a trigger is handled
ListenerCallable_Overlapping(p) ==
    p \in {"listen", "validate", "sync_init", "list", "delete", "clear",
           "fetch", "create"}

\* main_routine: one thread; the listener is called at the top of the loop
\* only, after HandleTimeTable(...) has returned
ListenerCallable(p) == p = "listen"


\* a constructor without the try / except around the calendar sync: the
\* exception reaches the main loop, which exits with status 1
AfterSubtaskException_Uncaught == "exit1"

\* __init__: an exception of the calendar sync is caught and logged, and
\* control returns to the main loop
AfterSubtaskException == "listen"

----------------------------------------------------------------------------
(* Times.  A datetime is a number of half-minutes since Monday 00:00 of the *)
(* first week; an ISO text is the pair of its date and its time of day, so  *)
(* that parsing and formatting are conversions.                             *)

\* half-minutes in a day
Day == 24 * 60 * 2

Iso(day, tod) == [day |-> day, tod |-> tod]

\* a text isoparse does not accept (or a missing key)
NoIso == Iso(-1, -1)

IsoRaises(iso) == iso.day < 0

\* dateutil.parser.isoparse
isoparse(iso) == iso.day * Day + iso.tod

\* datetime.isoformat
isoformat(dt) == Iso(dt \div Day, dt % Day)

\* datetime.isoweekday: Monday is 1, Sunday is 7
isoweekday(dt) == ((dt \div Day) % 7) + 1

\* int(x / d) for d > 0: Python's int() rounds towards zero
TruncDiv(x, d) == IF x >= 0 THEN x \div d ELSE -((-x) \div d)

----------------------------------------------------------------------------
(* core/base_classes.py *)

\* ScheduledTuition(**event): the fields are taken over as they are (the
\* class declares no validator), `id` under its alias db_tuition_id
ScheduledTuition(event) ==
    [name |-> event.name,
     start_time |-> isoparse(event.start_time),
     end_time |-> isoparse(event.end_time),
     db_tuition_id |-> event.id]

\* zoom_meet_topic
zoom_meet_topic(tuition) == ReplaceUnderscore(tuition.name)

\* duration_minutes: int((end_time - start_time).total_seconds() / 60)
duration_minutes(tuition) ==
    TruncDiv(tuition.end_time - tuition.start_time, 2)

----------------------------------------------------------------------------
(* apis/zoom_meeting.py *)


\* a weekday passed on as it is
zoom_weekday_Same(d) == d

\* zoom_weekday = (start_dt.isoweekday() % 7) + 1
zoom_weekday(d) == (d % 7) + 1


\* a rescheduling to the next day
RescheduledStart_NextDay(start_dt, now_aware) ==
    IF start_dt < now_aware THEN start_dt + Day ELSE start_dt

\* create_meeting: if start_time_dt < now_aware: start_time_dt +=
\* timedelta(days=7)
RescheduledStart(start_dt, now_aware) ==
    IF start_dt < now_aware THEN start_dt + 7 * Day ELSE start_dt

\* create_meeting: the request sent to the meeting API for a recurring
\* meeting; the start time is parsed, rescheduled when it is in the past and
\* formatted again, and the weekday is read from the formatted text
create_meeting(topic, start_time_iso, duration, now_aware) ==
    LET start_iso == isoformat(RescheduledStart(isoparse(start_time_iso),
                                                now_aware))
    IN  [topic |-> topic,
         start_time |-> start_iso,
         duration |-> duration,
         weekly_days |-> zoom_weekday(isoweekday(isoparse(start_iso)))]

\* the answers to DELETE /meetings/{id}: 204 deleted, 404 not found, 500 a
\* server error
ZoomDeleteResponses == {204, 404, 500}

\* delete_meeting: True after 204 and after 404, False otherwise
delete_meeting(status) == status \in {204, 404}

----------------------------------------------------------------------------
(* apis/google_calendar_meet.py: list_unique_events *)

Title_Tuition_A == <<"T", "u", "i", "t", "i", "o", "n", " ", "A">>

\* one occurrence as events().list(singleEvents=True) returns it;
\* recurringEventId "none": the item belongs to no series
Occurrence(id, series, summary, key) ==
    [id |-> id, recurringEventId |-> series, summary |-> summary, key |-> key]

O_A1 == Occurrence("sA_1", "sA", Title_Tuition_Z, "ptm-tuition-a")
O_A2 == Occurrence("sA_2", "sA", Title_Tuition_Z, "ptm-tuition-a")
O_B1 == Occurrence("sB_1", "sB", Title_Tuition_Z, "ptm-tuition-b")
O_C1 == Occurrence("e1", "none", Title_Tuition_A, "ptm-tuition-c")
O_D1 == Occurrence("e2", "none", Title_Physics_Tutor, "none")
O_E1 == Occurrence("sE_1", "sE", Title_Math_Tutor, "ptm-tuition-e")

\* the listings the model draws from, in the order of the start times
Listings ==
    {<<>>, <<O_A1, O_A2>>, <<O_C1, O_A1>>, <<O_A1, O_B1, O_A2>>,
     <<O_A1, O_D1, O_E1>>, <<O_B1, O_C1, O_A1, O_A2>>}

\* event.get('recurringEventId', event.get('id'))
SeriesId(o) == IF o.recurringEventId # "none" THEN o.recurringEventId ELSE o.id

\* list_unique_events: of the owned occurrences (list_events with
\* filter_by_key) whose summary starts with the prefix, the first one of each
\* summary, as the dictionary summary -> series id
list_unique_events(occ) ==
    LET owned == SelectSeq(occ, LAMBDA o : o.key # "none")
    IN  {[summary |-> owned[i].summary, id |-> SeriesId(owned[i])] :
            i \in {k \in DOMAIN owned :
                     /\ StartsWith(owned[k].summary, TuitionPrefix)
                     /\ \A j \in 1..(k - 1) :
                           owned[j].summary # owned[k].summary}}

----------------------------------------------------------------------------
(* core/tuition_meeting.py *)

\* an entry of solution_data with its times; has_id: the object has the key
\* "id"
TimedEntry(id, has_id, name, category, start, end) ==
    [id |-> id, has_id |-> has_id, name |-> name, category |-> category,
     start_time |-> start, end_time |-> end]

\* 10:00 to 11:00 on the day d
DayEntry(d) ==
    TimedEntry("t1", TRUE, Name_Tuition_A, "Tuition", Iso(d, 1200), Iso(d, 1320))

\* Sunday 10:00:00 to 11:30:30
M_t2 == TimedEntry("t2", TRUE, Name_Tuition_B, "Tuition", Iso(6, 1200), Iso(6, 1381))

\* an entry that ends 91.5 minutes before it starts, one that ends when it
\* starts, one without a parsable start
M_back == TimedEntry("t3", TRUE, Name_Tuition_C, "Tuition", Iso(2, 1200), Iso(2, 1017))
M_zero == TimedEntry("t3", TRUE, Name_Tuition_C, "Tuition", Iso(9, 1200), Iso(9, 1200))
M_bad == TimedEntry("t1", TRUE, Name_Tuition_A, "Tuition", NoIso, Iso(1, 1320))
M_gym == TimedEntry("g1", TRUE, Name_Gym, "Other", Iso(3, 1200), Iso(3, 1320))
M_noid == TimedEntry("", FALSE, Name_Tuition_C, "Tuition", Iso(4, 1200), Iso(4, 1320))

MeetingPayloads ==
    {<<DayEntry(d)>> : d \in 0..6}
        \cup {<<DayEntry(3), M_t2>>, <<DayEntry(8), M_back, M_t2>>,
              <<M_bad, M_t2>>, <<M_zero>>, <<M_gym, M_noid>>, <<>>,
              <<DayEntry(1), DayEntry(4)>>}

\* the tables the meeting sync may find
MeetingRuns ==
    {<<>>} \cup {<<Run("SUCCESS", FALSE, p)>> : p \in MeetingPayloads}

\* the current time at the creation of the meetings: before every entry,
\* Thursday 11:00 of the first week, Saturday noon of the second week
Nows == {0, 3 * Day + 1320, 12 * Day + 1440}

\* the rows of the table tuitions
TuitionIds == {"t1", "t2"}

\* meeting_link IS NULL
NoLink == 0

\* the meeting an earlier sync created for a tuition
OldMeetingId(id) == IF id = "t1" THEN 11 ELSE 12

\* the column meeting_link of every row: NULL or the meeting of an earlier
\* sync
InitTuitions ==
    {f \in [TuitionIds -> {NoLink, 11, 12}] :
        \A t \in TuitionIds : f[t] \in {NoLink, OldMeetingId(t)}}

\* a meeting the account holds; cyc: 0 for a meeting of an earlier sync
Meeting(id, request, orig, now_aware, cyc) ==
    [id |-> id, request |-> request, orig |-> orig, now |-> now_aware,
     cyc |-> cyc]

NoRequest == [topic |-> <<>>, start_time |-> NoIso, duration |-> 0,
              weekly_days |-> 0]

OldMeeting(id) == Meeting(id, NoRequest, NoIso, 0, 0)

\* get_all_tuitions: SELECT id, meeting_link FROM tuitions as a dictionary;
\* {} after a store error, so that every .get(id) finds nothing
get_all_tuitions(table, dbok) ==
    IF dbok THEN table ELSE [t \in DOMAIN table |-> NoLink]

\* update_tuition_meeting_link: UPDATE tuitions SET meeting_link = ... WHERE
\* id = tuition_id; no row with that id is no error
update_tuition_meeting_link(table, tuition_id, meeting_id, dbok) ==
    IF dbok /\ tuition_id \in DOMAIN table
    THEN [table EXCEPT ![tuition_id] = meeting_id]
    ELSE table

\* _match_and_prepare accepts the event: category 'Tuition' and an "id" key
IsTuition(event) == event.category = "Tuition" /\ event.has_id

\* _match_and_prepare: the ScheduledTuition of every accepted event whose
\* times parse; the others are logged
_match_and_prepare(data) ==
    LET ok == SelectSeq(data, LAMBDA e :
                  /\ IsTuition(e)
                  /\ ~IsoRaises(e.start_time)
                  /\ ~IsoRaises(e.end_time))
    IN  [i \in DOMAIN ok |-> ScheduledTuition(ok[i])]

\* an operation of the meeting sync, for the record of its order
Op(op, tuition_id, meeting_id) ==
    [op |-> op, tuition |-> tuition_id, meeting |-> meeting_id]

----------------------------------------------------------------------------
(* The state after construction *)

\* DatabaseHandler() calls: how many were made, and how many of them while
\* the pool existed
NoConstructions == [calls |-> 0, with_pool |-> 0]

\* the worker before main_routine runs
WorkerStart ==
    /\ nextId = 2
    /\ pending = <<>>
    /\ notifies = <<>>
    /\ checked_out = 0
    /\ peak_out = 0
    /\ subtasks = {}
    /\ delete_status = 0
    /\ delete_returned = "none"
    /\ sent = 0
    /\ pc = "start"
    /\ handler = NoHandler
    /\ interrupted_at = "none"
    /\ subscribed = FALSE
    /\ trigger = NoTrigger
    /\ is_valid_trigger = FALSE
    /\ query_ok = TRUE
    /\ cycle = 0
    /\ events_to_delete = <<>>
    /\ latest_run_id = None
    /\ tuition_events = <<>>
    /\ idx = 0
    /\ success_count = 0
    /\ fail_count = 0
    /\ attempts = <<>>
    /\ faults = 0
    /\ last = "none"
    /\ prevCal = {}

\* no meeting sync, no listing and no further construction is under way
PartsIdle ==
    /\ mpc = "idle"
    /\ tuitions = [t \in TuitionIds |-> NoLink]
    /\ zoom = {}
    /\ zoom_next = 21
    /\ timetable_data = <<>>
    /\ existing_tuitions = [t \in TuitionIds |-> NoLink]
    /\ scheduled_tuitions = <<>>
    /\ midx = 0
    /\ now = 0
    /\ new_meeting = 0
    /\ mlog = <<>>
    /\ occurrences = <<>>
    /\ unique_series = {}
    /\ listed = FALSE
    /\ constructions = NoConstructions

Init ==
    /\ runs \in InitRuns
    /\ \E w \in InitWorlds :
          /\ w.mapping # <<>> => runs # <<>>
          /\ calendar = w.calendar
          /\ mapping = w.mapping
    /\ WorkerStart
    /\ PartsIdle

syncLocals == <<events_to_delete, latest_run_id, tuition_events, idx,
                success_count, fail_count, attempts>>

\* the cost of a call: 0 when it succeeds, 1 when it fails
Cost(ok) == IF ok THEN 0 ELSE 1

poolVars == <<checked_out, peak_out>>

deleteVars == <<delete_status, delete_returned>>

\* the peak after one more connection was taken from the pool
Peak(peak, co) == IF co + 1 > peak THEN co + 1 ELSE peak

----------------------------------------------------------------------------
(* Other processes: the timetable producer's table trigger and the manual   *)
(* trigger send a notification                                              *)

\* NOTIFY reaches the sessions that have executed LISTEN on the channel; the
\* worker's connection has not before listen_for_notification's first LISTEN
Deliver(queue, n, listening) == IF listening THEN Append(queue, n) ELSE queue

Notify ==
    /\ sent < MaxTriggers
    /\ \E n \in Notifications : pending' = Deliver(pending, n, subscribed)
    /\ sent' = sent + 1
    /\ UNCHANGED <<runs, calendar, mapping, nextId, pc, trigger,
                   is_valid_trigger, query_ok, cycle, syncLocals, faults, last,
                   prevCal, notifies, poolVars, subtasks, deleteVars>>
    /\ UNCHANGED <<handler, interrupted_at, subscribed>>
    /\ UNCHANGED partVars

----------------------------------------------------------------------------
(* __main__.main_routine and DatabaseHandler.listen_for_notification        *)

\* main_routine up to the loop: the store handle is constructed
Startup ==
    /\ pc = "start"
    /\ \E env \in Environments :
          LET made == DatabaseHandler(handler, env)
          IN  /\ handler' = made.handler
              /\ pc' = AfterStartup(made.raised)
              /\ last' = IF made.raised THEN "startup_failed" ELSE last
    /\ UNCHANGED <<runs, calendar, mapping, nextId, pending, sent, trigger,
                   is_valid_trigger, query_ok, cycle, syncLocals, faults,
                   prevCal, notifies, poolVars, subtasks, deleteVars>>
    /\ UNCHANGED <<interrupted_at, subscribed>>
    /\ UNCHANGED partVars

\* KeyboardInterrupt while a trigger is handled or the loop sleeps: no
\* `except Exception` clause catches it, so whatever is in progress is
\* abandoned and the main routine returns.  When it arrives in a round of the
\* create loop after the create call was issued, the calendar may have
\* created the event; the mapping is not saved.
Interrupt ==
    /\ pc \in {"listen", "validate", "sync_init", "list", "delete", "clear",
               "fetch", "create"}
    /\ pc' = AfterInterrupt
    /\ interrupted_at' = pc
    /\ IF pc = "create" /\ ~ParseRaises(tuition_events[idx])
       THEN \E created \in BOOLEAN :
               IF created
               THEN /\ calendar' = calendar \cup
                         {Event(nextId,
                                ReplaceUnderscore(tuition_events[idx].name),
                                _generate_event_key(tuition_events[idx]),
                                cycle)}
                    /\ nextId' = nextId + 1
               ELSE UNCHANGED <<calendar, nextId>>
       ELSE UNCHANGED <<calendar, nextId>>
    /\ UNCHANGED <<runs, mapping, pending, sent, trigger, is_valid_trigger,
                   query_ok, cycle, syncLocals, faults, last, prevCal, notifies,
                   poolVars, subtasks, deleteVars>>
    /\ UNCHANGED <<handler, subscribed>>
    /\ UNCHANGED partVars

\* listen_for_notification up to the wait: a connection is taken from the
\* pool and LISTEN is executed for both channels.  psycopg2 reads the
\* notifications that have arrived on a connection whenever a command is
\* executed on it, so the ones that arrived since the last wait are in
\* conn.notifies when select.select starts to wait.  getconn or LISTEN may
\* raise; the main loop then exits with status 1.
ListenSubscribe ==
    /\ ListenerCallable(pc)
    /\ \E res \in {"ok", "getconn_raises", "listen_raises"} :
          CASE res = "ok" ->
                 /\ subscribed' = TRUE
                 /\ checked_out' = checked_out + 1
                 /\ peak_out' = Peak(peak_out, checked_out)
                 /\ notifies' = notifies \o pending
                 /\ pending' = <<>>
                 /\ pc' = "waiting"
                 /\ last' = last
            [] res = "listen_raises" ->
                 /\ checked_out' = ReleaseOnExit(checked_out + 1, TRUE)
                 /\ peak_out' = Peak(peak_out, checked_out)
                 /\ pc' = AfterListenerError
                 /\ last' = "listener_error"
                 /\ UNCHANGED <<notifies, pending, subscribed>>
            [] OTHER ->
                 /\ pc' = AfterListenerError
                 /\ last' = "listener_error"
                 /\ UNCHANGED <<checked_out, peak_out, notifies, pending,
                                subscribed>>
    /\ UNCHANGED <<runs, calendar, mapping, nextId, sent, trigger,
                   is_valid_trigger, query_ok, cycle, syncLocals, faults,
                   prevCal, subtasks, deleteVars>>
    /\ UNCHANGED <<handler, interrupted_at>>
    /\ UNCHANGED partVars

\* listen_for_notification from the wake on: select.select returns (data on
\* the socket, or a wake without a notification), conn.poll() reads what has
\* arrived, and the oldest notification, if there is one, is popped, decoded
\* and returned; otherwise None is returned.  poll or json.loads may raise.
\* The main loop hands a notification to HandleTimeTable, whose constructor
\* resets is_valid_trigger.
ListenWake ==
    /\ pc = "waiting"
    /\ \E polled \in BOOLEAN :
          LET q == notifies \o pending
          IN  CASE ~polled ->
                     /\ pc' = AfterListenerError
                     /\ last' = "listener_error"
                     /\ checked_out' = ReleaseOnExit(checked_out, TRUE)
                     /\ UNCHANGED <<notifies, pending, trigger,
                                    is_valid_trigger, subtasks>>
                [] polled /\ q = <<>> ->
                     /\ pc' = AfterListener(FALSE)
                     /\ checked_out' = ReleaseOnExit(checked_out, FALSE)
                     /\ UNCHANGED <<notifies, pending, trigger,
                                    is_valid_trigger, last, subtasks>>
                [] polled /\ q # <<>> /\ DecodeRaises(Head(q)) ->
                     /\ notifies' = Tail(q)
                     /\ pending' = <<>>
                     /\ pc' = AfterListenerError
                     /\ last' = "listener_error"
                     /\ checked_out' = ReleaseOnExit(checked_out, TRUE)
                     /\ UNCHANGED <<trigger, is_valid_trigger, subtasks>>
                [] OTHER ->
                     /\ notifies' = Tail(q)
                     /\ pending' = <<>>
                     /\ trigger' = DecodeNotification(Head(q))
                     /\ is_valid_trigger' = FALSE
                     /\ subtasks' = {}
                     /\ last' = "triggered"
                     /\ pc' = AfterListener(TRUE)
                     /\ checked_out' = ReleaseOnExit(checked_out, FALSE)
    /\ UNCHANGED <<runs, calendar, mapping, nextId, sent, query_ok, cycle,
                   syncLocals, faults, prevCal, peak_out, deleteVars>>
    /\ UNCHANGED <<handler, interrupted_at, subscribed>>
    /\ UNCHANGED partVars

\* KeyboardInterrupt while the listener waits: the finally clause runs, the
\* main loop logs the shutdown and returns
ListenInterrupt ==
    /\ pc = "waiting"
    /\ pc' = AfterInterrupt
    /\ interrupted_at' = pc
    /\ checked_out' = ReleaseOnExit(checked_out, TRUE)
    /\ UNCHANGED <<runs, calendar, mapping, nextId, pending, sent, trigger,
                   is_valid_trigger, query_ok, cycle, syncLocals, faults, last,
                   prevCal, notifies, peak_out, subtasks, deleteVars>>
    /\ UNCHANGED <<handler, subscribed>>
    /\ UNCHANGED partVars

----------------------------------------------------------------------------
(* HandleTimeTable.__init__ *)

Validate ==
    /\ pc = "validate"
    /\ \E dbok \in BOOLEAN :
          /\ faults + Cost(dbok) <= MaxFaults
          /\ faults' = faults + Cost(dbok)
          /\ is_valid_trigger' = _validate_trigger(runs, dbok)
          /\ query_ok' = dbok
          /\ checked_out' = get_connection(checked_out, dbok)
    /\ peak_out' = Peak(peak_out, checked_out)
    /\ pc' = AfterValidation(is_valid_trigger')
    /\ UNCHANGED <<runs, calendar, mapping, nextId, pending, sent, trigger,
                   cycle, syncLocals, last, prevCal, notifies, subtasks,
                   deleteVars>>
    /\ UNCHANGED <<handler, interrupted_at, subscribed>>
    /\ UNCHANGED partVars

----------------------------------------------------------------------------
(* HandleTuitionGoogleCalendarEvents *)

\* HandleTimeTable.__init__ on a valid trigger logs that the meeting sync is
\* skipped (its call is commented out) and constructs the calendar sync.
\* __init__: GoogleCalendarManager() raises ValueError without its
\* configuration, has no service when the authentication failed; otherwise
\* run_sync starts
SyncInit ==
    /\ pc = "sync_init"
    /\ \E gcal \in {"ok", "no_service", "raises"} :
          /\ faults + Cost(gcal = "ok") <= MaxFaults
          /\ faults' = faults + Cost(gcal = "ok")
          /\ pc' = CASE gcal = "ok" -> "list"
                     [] gcal = "no_service" -> "listen"
                     [] OTHER -> AfterSubtaskException
          /\ last' = CASE gcal = "ok" -> "running"
                       [] gcal = "no_service" -> "no_service"
                       [] OTHER -> "ctor_raised"
          /\ cycle' = IF gcal = "ok" THEN cycle + 1 ELSE cycle
          /\ prevCal' = IF gcal = "ok" THEN calendar ELSE prevCal
    /\ events_to_delete' = <<>>
    /\ latest_run_id' = None
    /\ tuition_events' = <<>>
    /\ idx' = 0
    /\ success_count' = 0
    /\ fail_count' = 0
    /\ attempts' = <<>>
    /\ subtasks' = subtasks \cup {"calendar"}
    /\ UNCHANGED <<runs, calendar, mapping, nextId, pending, sent, trigger,
                   is_valid_trigger, query_ok, notifies, poolVars, deleteVars>>
    /\ UNCHANGED <<handler, interrupted_at, subscribed>>
    /\ UNCHANGED partVars

\* clean_up_prev_tuition_events, the listing: no event found returns None,
\* which run_sync takes for a failure
CleanupList ==
    /\ pc = "list"
    /\ \E ok \in BOOLEAN :
          /\ faults + Cost(ok) <= MaxFaults
          /\ faults' = faults + Cost(ok)
          /\ events_to_delete' = list_events(calendar, FALSE, ok)
    /\ IF events_to_delete' = <<>>
       THEN /\ pc' = "listen"
            /\ last' = "no_events"
            /\ idx' = 0
       ELSE /\ pc' = "delete"
            /\ last' = last
            /\ idx' = 1
    /\ UNCHANGED <<runs, calendar, mapping, nextId, pending, sent, trigger,
                   is_valid_trigger, query_ok, cycle, latest_run_id, tuition_events,
                   success_count, fail_count, attempts, prevCal, notifies,
                   poolVars, subtasks, deleteVars>>
    /\ UNCHANGED <<handler, interrupted_at, subscribed>>
    /\ UNCHANGED partVars

\* clean_up_prev_tuition_events, one round of the delete loop: delete_event
\* is called and its result is not looked at (the loop goes on), unless it
\* raises (the cleanup returns False and run_sync returns)
CleanupDelete ==
    /\ pc = "delete"
    /\ \E status \in DeleteResponses :
          /\ faults + Cost(status = 204) <= MaxFaults
          /\ faults' = faults + Cost(status = 204)
          /\ delete_status' = status
          /\ delete_returned' = delete_event(status)
          /\ calendar' = IF GoneAfter(status)
                         THEN {e \in calendar : e.id # events_to_delete[idx].id}
                         ELSE calendar
          /\ IF delete_returned' = "raised"
             THEN /\ pc' = "listen"
                  /\ last' = "cleanup_failed"
                  /\ idx' = 0
             ELSE /\ pc' = IF idx = Len(events_to_delete) THEN "clear" ELSE "delete"
                  /\ last' = last
                  /\ idx' = idx + 1
    /\ UNCHANGED <<runs, mapping, nextId, pending, sent, trigger,
                   is_valid_trigger, query_ok, cycle, events_to_delete, latest_run_id,
                   tuition_events, success_count, fail_count, attempts, prevCal,
                   notifies, poolVars, subtasks>>
    /\ UNCHANGED <<handler, interrupted_at, subscribed>>
    /\ UNCHANGED partVars

\* clean_up_prev_tuition_events, the end: clear_calendar_events truncates the
\* table, or logs the database error and leaves it; the cleanup returns True
CleanupClear ==
    /\ pc = "clear"
    /\ \E dbok \in BOOLEAN :
          /\ faults + Cost(dbok) <= MaxFaults
          /\ faults' = faults + Cost(dbok)
          /\ LET db == clear_calendar_events(Store(runs, mapping), dbok)
             IN  /\ runs' = db.timetable_runs
                 /\ mapping' = db.calendar_events
          /\ checked_out' = get_connection(checked_out, dbok)
    /\ peak_out' = Peak(peak_out, checked_out)
    /\ pc' = "fetch"
    /\ idx' = 0
    /\ UNCHANGED <<calendar, nextId, pending, sent, trigger,
                   is_valid_trigger, query_ok, cycle, events_to_delete, latest_run_id,
                   tuition_events, success_count, fail_count, attempts, last,
                   prevCal, notifies, subtasks, deleteVars>>
    /\ UNCHANGED <<handler, interrupted_at, subscribed>>
    /\ UNCHANGED partVars

\* run_sync, step 2: the latest valid run, its timetable, the 'Tuition' filter
Fetch ==
    /\ pc = "fetch"
    /\ \E ok1 \in BOOLEAN, ok2 \in BOOLEAN :
          LET id == fetch_latest_successful_run_id(runs, ok1)
              data == fetch_timetable_by_run_id(runs, id, ok2)
              co1 == get_connection(checked_out, ok1)
          IN  /\ id = None => ok2
              /\ faults + Cost(ok1) + Cost(ok2) <= MaxFaults
              /\ faults' = faults + Cost(ok1) + Cost(ok2)
              /\ latest_run_id' = id
              /\ checked_out' = IF id = None THEN co1
                                ELSE get_connection(co1, ok2)
              /\ peak_out' = IF id = None THEN Peak(peak_out, checked_out)
                             ELSE Peak(Peak(peak_out, checked_out), co1)
              /\ CASE id = None ->
                        /\ pc' = "listen"
                        /\ last' = "no_run"
                        /\ tuition_events' = <<>>
                        /\ idx' = 0
                   [] id # None /\ NoTimetable(data) ->
                        /\ pc' = "listen"
                        /\ last' = "empty_data"
                        /\ tuition_events' = <<>>
                        /\ idx' = 0
                   [] id # None /\ ~NoTimetable(data) /\ FilterRaises(data) ->
                        /\ pc' = AfterSubtaskException
                        /\ last' = "raised"
                        /\ tuition_events' = <<>>
                        /\ idx' = 0
                   [] OTHER ->
                        /\ tuition_events' = FilterTuition(data)
                        /\ idx' = 1
                        /\ pc' = EndOfLoop(1, Len(tuition_events'))
                        /\ last' = IF tuition_events' = <<>> THEN "completed"
                                   ELSE last
    /\ UNCHANGED <<runs, calendar, mapping, nextId, pending, sent, trigger,
                   is_valid_trigger, query_ok, cycle, events_to_delete, success_count,
                   fail_count, attempts, prevCal, notifies, subtasks,
                   deleteVars>>
    /\ UNCHANGED <<handler, interrupted_at, subscribed>>
    /\ UNCHANGED partVars

\* run_sync, one round of the create loop
CreateEntry ==
    /\ pc = "create"
    /\ LET event == tuition_events[idx]
           n == Len(tuition_events)
       IN  \/ /\ ParseRaises(event)
              /\ attempts' = Append(attempts, "raised")
              /\ idx' = NextIndexOnError(idx, n)
              /\ UNCHANGED <<runs, calendar, mapping, nextId, success_count,
                             fail_count, faults, poolVars>>
           \/ /\ ~ParseRaises(event)
              /\ \E created \in BOOLEAN, saved \in BOOLEAN :
                    /\ ~created => saved
                    /\ faults + Cost(created) + Cost(saved) <= MaxFaults
                    /\ faults' = faults + Cost(created) + Cost(saved)
                    /\ IF created
                       THEN /\ calendar' = calendar \cup
                                 {Event(nextId, ReplaceUnderscore(event.name),
                                        _generate_event_key(event), cycle)}
                            /\ nextId' = nextId + 1
                            /\ success_count' = success_count + 1
                            /\ fail_count' = fail_count
                            /\ LET db == save_calendar_event_mapping(
                                            Store(runs, mapping),
                                            Row(latest_run_id,
                                                _generate_event_key(event),
                                                nextId, cycle),
                                            saved)
                               IN  /\ runs' = db.timetable_runs
                                   /\ mapping' = db.calendar_events
                            /\ attempts' = Append(attempts,
                                 IF saved THEN "saved" ELSE "save_failed")
                            /\ checked_out' = get_connection(checked_out, saved)
                            /\ peak_out' = Peak(peak_out, checked_out)
                       ELSE /\ fail_count' = fail_count + 1
                            /\ attempts' = Append(attempts, "create_failed")
                            /\ UNCHANGED <<runs, calendar, mapping, nextId,
                                           success_count, poolVars>>
              /\ idx' = idx + 1
    /\ pc' = EndOfLoop(idx', Len(tuition_events))
    /\ last' = IF pc' = "listen" THEN "completed" ELSE last
    /\ UNCHANGED <<pending, sent, trigger, is_valid_trigger, query_ok,
                   cycle, events_to_delete, latest_run_id, tuition_events,
                   prevCal, notifies, subtasks, deleteVars>>
    /\ UNCHANGED <<handler, interrupted_at, subscribed>>
    /\ UNCHANGED partVars

----------------------------------------------------------------------------

Next ==
    \/ Startup
    \/ Notify
    \/ ListenSubscribe
    \/ ListenWake
    \/ ListenInterrupt
    \/ Interrupt
    \/ Validate
    \/ SyncInit
    \/ CleanupList
    \/ CleanupDelete
    \/ CleanupClear
    \/ Fetch
    \/ CreateEntry

Spec == Init /\ [][Next]_vars

\* The worker's own steps happen whenever they can: main_routine and the
\* handlers are one thread that runs on.  A wait of the listener ends when
\* data has arrived on the socket (select.select has no timeout); other
\* processes need not send anything, a wake without data need not come and
\* nobody need interrupt.
WorkerStep ==
    \/ Startup
    \/ ListenSubscribe
    \/ Validate
    \/ SyncInit
    \/ CleanupList
    \/ CleanupDelete
    \/ CleanupClear
    \/ Fetch
    \/ CreateEntry

WakeOnData == ListenWake /\ pending # <<>>

LiveSpec ==
    Init /\ [][Next]_vars /\ WF_vars(WorkerStep) /\ WF_vars(WakeOnData)

----------------------------------------------------------------------------
(* The components the worker loop does not drive: the meeting sync of
   core/tuition_meeting.py with the meeting gateway, list_unique_events and
   further DatabaseHandler() calls.  PartsSpec runs them from the states
   they can be started in. *)

\* the worker's variables these components do not touch
quietVars == <<runs, calendar, mapping, nextId, pending, sent, pc, trigger,
               is_valid_trigger, query_ok, cycle, syncLocals, last, prevCal,
               notifies, poolVars, subtasks, deleteVars, interrupted_at,
               subscribed>>

meetingVars == <<mpc, tuitions, zoom, zoom_next, timetable_data,
                 existing_tuitions, scheduled_tuitions, midx, now,
                 new_meeting, mlog>>

listingVars == <<occurrences, unique_series, listed>>

\* the meetings of earlier syncs the stored links refer to
LinkedMeetings(table) ==
    {OldMeeting(table[t]) : t \in {u \in DOMAIN table : table[u] # NoLink}}

PartsInit ==
    /\ runs \in MeetingRuns
    /\ calendar = {}
    /\ mapping = <<>>
    /\ WorkerStart
    /\ mpc = "m_fetch"
    /\ tuitions \in InitTuitions
    /\ zoom \in SUBSET LinkedMeetings(tuitions)
    /\ zoom_next = 21
    /\ timetable_data = <<>>
    /\ existing_tuitions = [t \in TuitionIds |-> NoLink]
    /\ scheduled_tuitions = <<>>
    /\ midx = 0
    /\ now \in Nows
    /\ new_meeting = 0
    /\ mlog = <<>>
    /\ occurrences \in Listings
    /\ unique_series = {}
    /\ listed = FALSE
    /\ constructions = NoConstructions

\* _sync_meetings: the position after the tuition i of n
AfterTuition(i, n) == IF i < n THEN "m_create" ELSE "m_done"

NextIndex(i, n) == IF i < n THEN i + 1 ELSE i

\* a loop that goes on to step 3 whatever the update returned
AfterUpdate_NoCheck(update_success, i, n) == "m_delete_old"

\* _sync_meetings: `if not update_success: continue`
AfterUpdate(update_success, i, n) ==
    IF update_success THEN "m_delete_old" ELSE AfterTuition(i, n)

\* run_sync: _fetch_data reads the latest timetable and the tuitions; without
\* timetable data the sync ends
MeetingFetch ==
    /\ mpc = "m_fetch"
    /\ \E ok1 \in BOOLEAN, ok2 \in BOOLEAN, ok3 \in BOOLEAN :
          LET cost == (IF ok1 THEN 0 ELSE 1) + (IF ok2 THEN 0 ELSE 1)
                          + (IF ok3 THEN 0 ELSE 1)
              data == fetch_timetable_by_run_id(
                          runs, fetch_latest_successful_run_id(runs, ok1), ok2)
          IN  /\ faults + cost <= MaxFaults
              /\ faults' = faults + cost
              /\ existing_tuitions' = get_all_tuitions(tuitions, ok3)
              /\ timetable_data' = data
              /\ mpc' = IF data = <<>> THEN "m_done" ELSE "m_prepare"
    /\ UNCHANGED <<tuitions, zoom, zoom_next, scheduled_tuitions, midx, now,
                   new_meeting, mlog>>
    /\ UNCHANGED <<quietVars, handler, listingVars, constructions>>

\* run_sync: _match_and_prepare, then _sync_meetings, which returns at once
\* without scheduled tuitions
MeetingPrepare ==
    /\ mpc = "m_prepare"
    /\ scheduled_tuitions' = _match_and_prepare(timetable_data)
    /\ mpc' = IF scheduled_tuitions' = <<>> THEN "m_done" ELSE "m_create"
    /\ midx' = IF scheduled_tuitions' = <<>> THEN 0 ELSE 1
    /\ UNCHANGED <<tuitions, zoom, zoom_next, timetable_data,
                   existing_tuitions, now, new_meeting, mlog>>
    /\ UNCHANGED <<quietVars, handler, faults, listingVars, constructions>>

\* _sync_meetings, step 1: create the new meeting of the tuition; created:
\* the meeting API accepted the request; without a creation result the loop
\* goes on with the next tuition
MeetingCreate ==
    /\ mpc = "m_create"
    /\ LET tuition == scheduled_tuitions[midx]
           start_iso == isoformat(tuition.start_time)
           request == create_meeting(zoom_meet_topic(tuition), start_iso,
                                     duration_minutes(tuition), now)
       IN  \E created \in BOOLEAN :
              /\ faults + (IF created THEN 0 ELSE 1) <= MaxFaults
              /\ faults' = faults + (IF created THEN 0 ELSE 1)
              /\ IF created
                 THEN /\ zoom' = zoom \cup
                                   {Meeting(zoom_next, request, start_iso, now, 1)}
                      /\ zoom_next' = zoom_next + 1
                      /\ new_meeting' = zoom_next
                      /\ mlog' = Append(mlog, Op("create", tuition.db_tuition_id,
                                                 zoom_next))
                      /\ mpc' = "m_update"
                      /\ midx' = midx
                 ELSE /\ mpc' = AfterTuition(midx, Len(scheduled_tuitions))
                      /\ midx' = NextIndex(midx, Len(scheduled_tuitions))
                      /\ UNCHANGED <<zoom, zoom_next, new_meeting, mlog>>
    /\ UNCHANGED <<tuitions, timetable_data, existing_tuitions,
                   scheduled_tuitions, now>>
    /\ UNCHANGED <<quietVars, handler, listingVars, constructions>>

\* _sync_meetings, step 2: write the new link to the tuition's row; after a
\* store error the loop goes on with the next tuition
MeetingUpdate ==
    /\ mpc = "m_update"
    /\ LET tuition_id == scheduled_tuitions[midx].db_tuition_id
       IN  \E dbok \in BOOLEAN :
              /\ faults + (IF dbok THEN 0 ELSE 1) <= MaxFaults
              /\ faults' = faults + (IF dbok THEN 0 ELSE 1)
              /\ tuitions' = update_tuition_meeting_link(tuitions, tuition_id,
                                                         new_meeting, dbok)
              /\ mlog' = IF dbok
                         THEN Append(mlog, Op("update", tuition_id, new_meeting))
                         ELSE mlog
              /\ mpc' = AfterUpdate(dbok, midx, Len(scheduled_tuitions))
              /\ midx' = IF mpc' = "m_delete_old"
                         THEN midx
                         ELSE NextIndex(midx, Len(scheduled_tuitions))
    /\ UNCHANGED <<zoom, zoom_next, timetable_data, existing_tuitions,
                   scheduled_tuitions, now, new_meeting>>
    /\ UNCHANGED <<quietVars, handler, listingVars, constructions>>

\* _sync_meetings, step 3: delete the meeting the row referred to when the
\* data was fetched, if there was one; the API answers 404 for a meeting the
\* account does not hold
MeetingDeleteOld ==
    /\ mpc = "m_delete_old"
    /\ LET tuition_id == scheduled_tuitions[midx].db_tuition_id
           old == IF tuition_id \in DOMAIN existing_tuitions
                  THEN existing_tuitions[tuition_id]
                  ELSE NoLink
       IN  IF old = NoLink
           THEN UNCHANGED <<zoom, mlog, faults>>
           ELSE \E status \in ZoomDeleteResponses :
                   /\ (status = 204) => (\E m \in zoom : m.id = old)
                   /\ (status = 404) => ~(\E m \in zoom : m.id = old)
                   /\ faults + (IF delete_meeting(status) THEN 0 ELSE 1)
                         <= MaxFaults
                   /\ faults' = faults + (IF delete_meeting(status) THEN 0 ELSE 1)
                   /\ zoom' = IF status = 204
                              THEN {m \in zoom : m.id # old}
                              ELSE zoom
                   /\ mlog' = Append(mlog, Op("delete", tuition_id, old))
    /\ mpc' = AfterTuition(midx, Len(scheduled_tuitions))
    /\ midx' = NextIndex(midx, Len(scheduled_tuitions))
    /\ UNCHANGED <<tuitions, zoom_next, timetable_data, existing_tuitions,
                   scheduled_tuitions, now, new_meeting>>
    /\ UNCHANGED <<quietVars, handler, listingVars, constructions>>

\* GoogleCalendarManager.list_unique_events on the listing of the calendar
ListUniqueEvents ==
    /\ ~listed
    /\ unique_series' = list_unique_events(occurrences)
    /\ listed' = TRUE
    /\ UNCHANGED occurrences
    /\ UNCHANGED <<quietVars, handler, faults, meetingVars, constructions>>

\* one more DatabaseHandler() call, in whatever environment it finds
Construct ==
    /\ constructions.calls < MaxConstructions
    /\ \E env \in Environments :
          handler' = DatabaseHandler(handler, env).handler
    /\ constructions' =
          [calls |-> constructions.calls + 1,
           with_pool |-> constructions.with_pool + (IF handler.pool THEN 1 ELSE 0)]
    /\ UNCHANGED <<quietVars, faults, meetingVars, listingVars>>

PartsNext ==
    \/ MeetingFetch
    \/ MeetingPrepare
    \/ MeetingCreate
    \/ MeetingUpdate
    \/ MeetingDeleteOld
    \/ ListUniqueEvents
    \/ Construct

PartsSpec == PartsInit /\ [][PartsNext]_vars

----------------------------------------------------------------------------
(* Properties *)

Range(f) == {f[i] : i \in DOMAIN f}

\* the ways a run_sync call ends
Ended == {"no_events", "cleanup_failed", "no_run", "empty_data", "raised",
          "completed"}

\* a reconciliation cycle has just ended
CycleEnded == cycle >= 1 /\ last \in Ended

\* the positions inside HandleTuitionGoogleCalendarEvents
SyncPcs == {"sync_init", "list", "delete", "clear", "fetch", "create"}

\* the authoritative dataset: the payload of the latest valid run
Dataset ==
    fetch_timetable_by_run_id(runs,
        fetch_latest_successful_run_id(runs, TRUE), TRUE)

\* every entry is an object with parsable times
WellFormed(data) ==
    \A i \in DOMAIN data : data[i].is_dict /\ ~ParseRaises(data[i])

\* the events that carry the application's key
Owned(cal) == {e \in cal : e.key # "none"}

OwnedTitles(cal) == {e.summary : e \in Owned(cal)}

HasValidRun(rs) ==
    \E i \in DOMAIN rs :
        rs[i].status \in VALID_RUN_STATUSES /\ ~rs[i].data_null

\* the latest trigger has been judged
Judged ==
    trigger # NoTrigger /\ pc # "validate" /\ interrupted_at # "validate"

\* C1: after a reconciliation cycle in which every gateway and store call
\* succeeded, the mapping table has as many rows as the dataset has
\* 'Tuition' entries.
C1_MappingSizeEqualsTuitionCount ==
    (CycleEnded /\ faults = 0 /\ WellFormed(Dataset)
        /\ FilterTuition(Dataset) # <<>>)
        => Len(mapping) = Len(FilterTuition(Dataset))

\* exactly one artifact per 'Tuition' entry of the dataset
OnePerEntry(cal) ==
    \A e \in Range(FilterTuition(Dataset)) :
        Cardinality({a \in cal : a.key = _generate_event_key(e)}) = 1

\* C2: when a cycle left exactly one artifact per 'Tuition' entry, the next
\* cycle, all calls succeeding, ends with the same owned titles, no more
\* owned artifacts than before, and again exactly one per 'Tuition' entry.
C2_NoDuplicateAccumulation ==
    (CycleEnded /\ cycle >= 2 /\ faults = 0 /\ WellFormed(Dataset)
        /\ OnePerEntry(prevCal))
        => /\ OwnedTitles(calendar) = OwnedTitles(prevCal)
           /\ Cardinality(Owned(calendar)) <= Cardinality(Owned(prevCal))
           /\ OnePerEntry(calendar)

\* C3: once a cycle has begun creating or has finished, the mapping table
\* holds no row written by an earlier cycle (stated for the cycles in which
\* no gateway or store call failed).
C3_NoRowOfEarlierCycle ==
    (cycle >= 1 /\ faults = 0 /\ (pc = "create" \/ last \in Ended))
        => \A i \in DOMAIN mapping : mapping[i].cyc = cycle

\* C4: when the create loop ends, every filtered entry has been processed: a
\* failure of one entry stopped nothing; each entry without an error of its
\* own had its create call issued, and each one whose create call and save
\* succeeded has its mapping row, pointing at its event in the calendar.
C4_PartialFailureIsolation ==
    (last = "completed")
        => /\ Len(attempts) = Len(tuition_events)
           /\ \A i \in DOMAIN tuition_events :
                 /\ ~ParseRaises(tuition_events[i]) => attempts[i] # "raised"
                 /\ attempts[i] = "saved" =>
                       \E j \in DOMAIN mapping, a \in calendar :
                           /\ mapping[j].event_key =
                                 _generate_event_key(tuition_events[i])
                           /\ mapping[j].cyc = cycle
                           /\ mapping[j].google_event_id = a.id
                           /\ a.key = mapping[j].event_key

\* three entries, the second one failing, the first and the third created
\* and their mappings saved
C4_Witness ==
    /\ last = "completed"
    /\ Len(tuition_events) = 3
    /\ attempts[2] \in {"raised", "create_failed"}
    /\ attempts[1] = "saved" /\ attempts[3] = "saved"
    /\ Len(mapping) = 2

\* C5: at the end of a cycle that reached the create loop, successes plus
\* failures is the number of filtered entries, also when the processing of
\* an entry raised (stated for the cycles in which no gateway or store call
\* failed).
C5_CountsAddUp ==
    (last = "completed" /\ faults = 0)
        => success_count + fail_count = Len(tuition_events)

\* C6: the discovery step of a cycle finds every artifact the cycle before
\* created, whatever its title.
C6_CreatedIsDiscovered ==
    (cycle >= 2 /\ faults = 0 /\ (pc = "delete" \/ last = "no_events"))
        => \A e \in prevCal :
              e.cyc = cycle - 1 => e \in Range(events_to_delete)

\* C7: one run SUCCESS with the one entry abc / Math_Tutor, a calendar holding
\* one artifact of a prior cycle under another key: one cycle, all calls
\* succeeding, ends with exactly one artifact, titled 'Math Tutor', exactly
\* one mapping row, keyed 'ptm-tuition-abc', and nothing left of the prior
\* cycle.
C7_EndToEndScenario ==
    (/\ runs = <<Run("SUCCESS", FALSE, P_scenario)>>
     /\ cycle = 1 /\ CycleEnded /\ faults = 0
     /\ Cardinality(prevCal) = 1
     /\ \A e \in prevCal : e.key \notin {"none", "ptm-tuition-abc"})
        => /\ Cardinality(calendar) = 1
           /\ \A e \in calendar : e.summary = Title_Math_Tutor /\ e.cyc = 1
           /\ Len(mapping) = 1
           /\ \A i \in DOMAIN mapping : mapping[i].event_key = "ptm-tuition-abc"

\* C8 as stated: a trigger is valid exactly when the store holds a run with
\* an allowed status and a non-null payload.
C8_ValidIffValidRun ==
    Judged => (is_valid_trigger <=> HasValidRun(runs))

\* C8 amended: when the validator's store query succeeds, the trigger is
\* valid exactly when the store holds a run with an allowed status and a
\* non-null payload, whatever the channel and the payload; when the query
\* fails with a database error the trigger is invalid.
C8_ValidIffValidRunWhenQueried ==
    Judged => /\ query_ok => (is_valid_trigger <=> HasValidRun(runs))
              /\ ~query_ok => ~is_valid_trigger

\* a manual trigger judged invalid on a store whose only run has a payload
\* but no allowed status
C8_Witness ==
    /\ Judged /\ query_ok /\ ~is_valid_trigger
    /\ trigger.channel = MANUAL_TRIGGER_CHANNEL
    /\ runs # <<>>
    /\ \A i \in DOMAIN runs :
          ~runs[i].data_null /\ runs[i].status \notin VALID_RUN_STATUSES

\* C9: the worker is inside the sync only on a valid trigger, and the step
\* that judges a trigger invalid leads straight back to the listener,
\* leaving the calendar, the mapping table and the runs as they were (a step
\* in which an interrupt ends the worker judges nothing).
C9_InvalidTriggerStartsNoSync ==
    /\ [](pc \in SyncPcs => is_valid_trigger)
    /\ [][(pc = "validate" /\ pc' \notin {"validate", "exit0"}
             /\ ~is_valid_trigger')
            => (/\ pc' = "listen"
                /\ calendar' = calendar
                /\ mapping' = mapping
                /\ runs' = runs
                /\ nextId' = nextId
                /\ cycle' = cycle)]_vars

\* a trigger has been judged invalid and the worker is back at the listener
C9_Witness ==
    /\ pc = "listen" /\ trigger # NoTrigger /\ ~is_valid_trigger
    /\ last = "triggered"

\* C10: the step in which a sync sub-task raises ends at the listener call of
\* the main loop.
C10_SubtaskExceptionIsCaught ==
    [][(last' \in {"raised", "ctor_raised"} /\ last # last')
          => pc' = "listen"]_vars

\* the calendar sync raised on a valid trigger and the worker is back at the
\* listener
C10_Witness ==
    /\ last \in {"raised", "ctor_raised"}
    /\ is_valid_trigger
    /\ pc = "listen"

\* the positions at which a trigger is being validated or synced
HandlingPcs == {"validate"} \cup SyncPcs

\* the ways the handling of a valid trigger ends
Handled == Ended \cup {"no_service", "ctor_raised"}

\* the worker has stopped
Exited == {"exit0", "exit1"}

\* C11: when the handling of a valid trigger has ended, both sync sub-tasks
\* have been started for it, the meeting sync and the calendar sync (stated
\* for a handling in which no call failed and the calendar sync completed).
C11_BothSubtasksRun ==
    (pc = "listen" /\ is_valid_trigger /\ last = "completed" /\ faults = 0)
        => subtasks = {"meeting", "calendar"}

\* C12: at most one reconciliation is in flight.  The listener is entered
\* from the top of the main loop only, where the handling of the last
\* trigger is complete; while a trigger is validated or synced no
\* notification is read or consumed and the trigger in hand stays, and the
\* handling is left only for the listener call or by an interrupt that ends
\* the worker; a new trigger is taken up only by a wake of the listener.
C12_OneReconciliationInFlight ==
    /\ [](pc = "listen" => (last # "running" /\ (is_valid_trigger => last \in Handled)))
    /\ [][(pc' = "waiting" /\ pc # "waiting") => pc = "listen"]_vars
    /\ [][(pc \in HandlingPcs) =>
            (/\ trigger' = trigger
             /\ notifies' = notifies
             /\ Len(pending') >= Len(pending)
             /\ pc' \in HandlingPcs \cup {"listen", "exit0"})]_vars
    /\ [][trigger' # trigger => (pc = "waiting" /\ pc' = "validate")]_vars

\* a notification has arrived while the create loop of a sync is running and
\* waits unread
C12_Witness ==
    /\ pc = "create"
    /\ pending # <<>>
    /\ notifies = <<>>

\* C13: whichever way the listener is left (a notification, None, an error
\* of LISTEN, of poll or of the payload decoding, an interrupt), the
\* connection it took is back in the pool.
C13_ListenerReleasesConnection ==
    /\ [][(pc = "waiting" /\ pc' # "waiting") => checked_out' = 0]_vars
    /\ [][(pc = "listen" /\ pc' = "exit1") => checked_out' = 0]_vars
    /\ [](pc \in Exited => checked_out = 0)

\* the listener raised after it had taken its connection, before any trigger
\* was received, and the worker has exited with nothing checked out
C13_Witness ==
    /\ pc = "exit1"
    /\ peak_out = 1
    /\ checked_out = 0
    /\ trigger = NoTrigger

\* C14: between operations no connection is checked out, except the
\* listener's own single one while it waits; never more than one connection
\* is checked out at once, and never more than the pool maximum.
C14_PoolInvariant ==
    /\ checked_out = (IF pc = "waiting" THEN 1 ELSE 0)
    /\ peak_out <= 1
    /\ checked_out <= maxconn
    /\ peak_out <= maxconn

\* store operations have failed with a database error, among them the
\* validator's query, and no connection is checked out
C14_Witness ==
    /\ pc = "listen"
    /\ ~query_ok
    /\ faults >= 1
    /\ checked_out = 0
    /\ peak_out = 1

\* C15: a wake of the listener with no notification at hand, unless it ends
\* the worker, leads back to the listener call of the main loop and changes
\* neither the trigger in hand nor anything a validation or a sync writes.
C15_SpuriousWake ==
    [][(pc = "waiting" /\ notifies \o pending = <<>>
            /\ pc' \notin {"waiting"} \cup Exited)
          => (/\ pc' = "listen"
              /\ trigger' = trigger
              /\ is_valid_trigger' = is_valid_trigger
              /\ query_ok' = query_ok
              /\ cycle' = cycle
              /\ last' = last
              /\ subtasks' = subtasks
              /\ calendar' = calendar
              /\ mapping' = mapping
              /\ faults' = faults)]_vars

\* the listener was called, woke with nothing sent at all, and the worker is
\* back at the listener call without having handled any trigger
C15_Witness ==
    /\ pc = "listen"
    /\ peak_out = 1
    /\ sent = 0
    /\ trigger = NoTrigger
    /\ last = "none"

\* C16: no step consumes more than one notification; a listener call that
\* returns a notification consumes exactly the oldest one and returns its
\* channel, with the decoded JSON document as payload on the automatic
\* channel and the unmodified string on the manual channel.
C16_OldestOneDecoded ==
    /\ [][Len(notifies') + Len(pending') + 1 >= Len(notifies) + Len(pending)]_vars
    /\ [][(pc = "waiting" /\ pc' = "validate")
            => LET q == notifies \o pending
                   n == Head(q)
               IN  /\ q # <<>>
                   /\ notifies' \o pending' = Tail(q)
                   /\ trigger'.channel = n.channel
                   /\ n.channel = DB_EVENT_CHANNEL =>
                         /\ n.payload = "{\"id\": 1}"
                         /\ trigger'.payload = [json |-> [id |-> 1]]
                   /\ n.channel = MANUAL_TRIGGER_CHANNEL =>
                         trigger'.payload = [str |-> n.payload]]_vars

\* two notifications were at hand; the listener returned the older one, of
\* the automatic channel, decoded, and the younger one is still there
C16_Witness ==
    /\ pc = "validate"
    /\ trigger = [channel |-> DB_EVENT_CHANNEL, payload |-> [json |-> [id |-> 1]]]
    /\ Len(notifies) = 1
    /\ sent = 2

\* C17: a calendar delete call answered with not-found (HTTP 404 or 410)
\* returns success.
C17_NotFoundDeleteSucceeds ==
    delete_status \in {404, 410} => delete_returned = "True"

\* C18: a cycle gets past the fetch of the authoritative dataset only when a
\* run with an allowed status and a non-empty payload exists; the step that
\* finds no run or an empty payload creates nothing, saves no mapping and
\* ends at the listener call of the main loop.
C18_AbortWithoutDataset ==
    /\ []((pc = "create" \/ last = "completed")
            => (HasValidRun(runs) /\ Dataset # <<>>))
    /\ [][(last' \in {"no_run", "empty_data"} /\ last' # last)
            => (/\ pc' = "listen"
                /\ calendar' = calendar
                /\ mapping' = mapping
                /\ nextId' = nextId
                /\ attempts' = <<>>
                /\ success_count' = 0)]_vars

\* a cycle found the latest valid run's payload empty, every call having
\* succeeded, and the worker is back at the listener call
C18_Witness ==
    /\ last = "empty_data"
    /\ faults = 0
    /\ pc = "listen"
    /\ \A a \in calendar : a.cyc = 0
    /\ mapping = <<>>

\* the keys of the dataset's entries whose category is exactly 'Tuition'
TuitionKeys ==
    {"ptm-tuition-" \o e.id :
        e \in {x \in Range(Dataset) : x.is_dict /\ x.category = "Tuition"}}

\* C19: every artifact a cycle created and every mapping row a cycle wrote
\* carries the key of an entry of the latest valid run whose category is
\* exactly 'Tuition', and the create loop only ever works on such an entry.
C19_CategoryFilter ==
    /\ \A a \in calendar : a.cyc >= 1 => a.key \in TuitionKeys
    /\ \A i \in DOMAIN mapping :
          mapping[i].cyc >= 1 => mapping[i].event_key \in TuitionKeys
    /\ \A i \in DOMAIN tuition_events : tuition_events[i].category = "Tuition"

\* a cycle over a dataset of two 'Tuition' entries and one other entry has
\* created two artifacts and written two rows
C19_Witness ==
    /\ last = "completed"
    /\ Dataset = P_mixed
    /\ Cardinality({a \in calendar : a.cyc = cycle}) = 2
    /\ Len(mapping) = 2

\* C20: a step that adds a mapping row is a round of the create loop whose
\* create call returned an artifact, and the row holds the latest valid
\* run's id, 'ptm-tuition-' + the entry's id and the artifact's id; a row of
\* the current cycle belongs to an entry whose create call succeeded, no row
\* belongs to an entry whose create call failed, and every artifact the
\* worker created is keyed by the id of the entry it was created for.
C20_MappingRowAfterCreate ==
    /\ [][(mapping' # mapping /\ mapping' # <<>>)
            => (/\ pc = "create"
                /\ nextId' = nextId + 1
                /\ mapping' = Append(mapping,
                      Row(fetch_latest_successful_run_id(runs, TRUE),
                          "ptm-tuition-" \o tuition_events[idx].id,
                          nextId, cycle))
                /\ \E a \in calendar' \ calendar :
                      /\ a.id = nextId
                      /\ a.key = "ptm-tuition-" \o tuition_events[idx].id)]_vars
    /\ [](\A j \in DOMAIN attempts :
            attempts[j] \in {"create_failed", "raised"} =>
                \A i \in DOMAIN mapping :
                    mapping[i].cyc = cycle =>
                        mapping[i].event_key
                            # "ptm-tuition-" \o tuition_events[j].id)
    /\ [](\A a \in calendar :
            a.cyc >= 1 =>
                \E e \in Range(Dataset) :
                    /\ a.key = "ptm-tuition-" \o e.id
                    /\ a.summary = ReplaceUnderscore(e.name))

\* a cycle in which the create call of one entry failed and that of another
\* one succeeded has written exactly the row of the latter
C20_Witness ==
    /\ last = "completed"
    /\ \E j \in DOMAIN attempts, k \in DOMAIN attempts :
          attempts[j] = "create_failed" /\ attempts[k] = "saved"
    /\ Cardinality({i \in DOMAIN mapping : mapping[i].cyc = cycle}) = 1

\* C26: a construction of the store handle that yields no pool (DATABASE_URL
\* missing, store unreachable) ends the process with status 1 in that very
\* step; the worker is past the start only with a pool, and after a failed
\* start no listener call, validation or sync has taken place.
C26_StartupFailureIsFatal ==
    /\ [][(pc = "start" /\ pc' # "start" /\ ~handler'.pool)
            => pc' = "exit1"]_vars
    /\ [](pc \notin {"start", "exit1"} => handler.pool)
    /\ []((pc = "exit1" /\ last = "startup_failed")
            => (/\ ~handler.pool
                /\ peak_out = 0
                /\ trigger = NoTrigger
                /\ query_ok
                /\ cycle = 0
                /\ subtasks = {}))

\* the construction failed and the process has exited with status 1
C26_Witness ==
    /\ pc = "exit1"
    /\ last = "startup_failed"
    /\ handler.instances = 1
    /\ handler.pools_created = 0

\* C27: the step in which the listener raises ends the worker with status 1,
\* and from there nothing is done any more: no listener call, no validation,
\* no sync.
C27_ListenerErrorEndsWorker ==
    /\ [][(last' = "listener_error" /\ last' # last) => pc' = "exit1"]_vars
    /\ [][pc = "exit1"
            => (/\ pc' = "exit1"
                /\ peak_out' = peak_out
                /\ checked_out' = checked_out
                /\ notifies' = notifies
                /\ trigger' = trigger
                /\ cycle' = cycle
                /\ calendar' = calendar
                /\ mapping' = mapping
                /\ last' = last)]_vars

\* after a completed cycle the listener raised in a later wait and the
\* worker has exited with status 1
C27_Witness ==
    /\ pc = "exit1"
    /\ last = "listener_error"
    /\ cycle >= 1
    /\ attempts # <<>>

\* C28: when an interrupt that arrived in a round of the create loop has
\* ended the worker, every artifact the cycle created has its mapping row
\* (stated for the cycles in which no gateway or store call failed).
C28_InterruptLetsEntryFinish ==
    (pc = "exit0" /\ interrupted_at = "create" /\ faults = 0)
        => \A a \in calendar :
              a.cyc = cycle =>
                  \E i \in DOMAIN mapping :
                      /\ mapping[i].google_event_id = a.id
                      /\ mapping[i].cyc = cycle

\* C29: no step changes the table of timetable runs.
C29_RunsNeverMutated ==
    [][runs' = runs]_vars

\* a cycle has deleted the prior events, truncated the mapping table and
\* inserted new rows, on a store that holds a run
C29_Witness ==
    /\ last = "completed"
    /\ prevCal # {}
    /\ mapping # <<>>
    /\ \A i \in DOMAIN mapping : mapping[i].cyc = cycle
    /\ runs # <<>>

\* C21: clear-and-replace in the meeting sync: when the first new meeting of
\* a cycle has just been created, the account holds no meeting of an earlier
\* sync and every stored meeting link is NULL (stated for the cycles in
\* which no gateway or store call failed).
C21_ClearBeforeCreate ==
    (Len(mlog) = 1 /\ mlog[1].op = "create" /\ faults = 0)
        => /\ \A m \in zoom : m.cyc # 0
           /\ \A t \in DOMAIN tuitions : tuitions[t] = NoLink

\* the series among the owned occurrences whose title has the prefix
OwnedSeries ==
    {SeriesId(occurrences[i]) :
        i \in {k \in DOMAIN occurrences :
                 /\ occurrences[k].key # "none"
                 /\ StartsWith(occurrences[k].summary, TuitionPrefix)}}

\* C22: when list_unique_events has returned, its targets are exactly the
\* distinct owned series of the listing, each series once.
C22_OneTargetPerSeries ==
    listed =>
        /\ {u.id : u \in unique_series} = OwnedSeries
        /\ Cardinality(unique_series) = Cardinality(OwnedSeries)

\* C23: every meeting created in the cycle whose given start time was in the
\* past at creation time was submitted with the start time exactly 7 days
\* later at the same clock time; one whose start time was not in the past
\* was submitted with the start time it was given.
C23_PastStartMovesOneWeek ==
    \A m \in zoom :
        m.cyc = 1 =>
            IF m.orig.day * Day + m.orig.tod < m.now
            THEN m.request.start_time = Iso(m.orig.day + 7, m.orig.tod)
            ELSE m.request.start_time = m.orig

\* a meeting was created for a start time one hour in the past, and one for
\* a start time that was still to come
C23_Witness ==
    /\ \E m \in zoom : m.cyc = 1 /\ m.orig.day * Day + m.orig.tod + 120 = m.now
    /\ \E m \in zoom : m.cyc = 1 /\ m.orig.day * Day + m.orig.tod > m.now

\* the weekday numbers of the meeting API by local ISO weekday: Monday 2,
\* ..., Saturday 7, Sunday 1
ApiWeekdays == <<2, 3, 4, 5, 6, 7, 1>>

\* C24: zoom_weekday maps the ISO weekdays 1..7 one-to-one onto 1..7, Monday
\* to 2, ..., Saturday to 7 and Sunday to 1, and every meeting created in
\* the cycle was submitted with the weekday of its submitted start time
\* translated that way.
C24_WeekdayTranslation ==
    /\ \A d \in 1..7 : zoom_weekday(d) = ApiWeekdays[d] /\ zoom_weekday(d) \in 1..7
    /\ \A d \in 1..7 : \A e \in 1..7 :
          zoom_weekday(d) = zoom_weekday(e) => d = e
    /\ {zoom_weekday(d) : d \in 1..7} = 1..7
    /\ \A m \in zoom :
          m.cyc = 1 =>
              m.request.weekly_days =
                  ApiWeekdays[(m.request.start_time.day % 7) + 1]

\* a meeting starting on a Sunday was submitted with weekday 1, and one
\* starting on a Thursday with weekday 5
C24_Witness ==
    /\ \E m \in zoom :
          /\ m.cyc = 1
          /\ m.request.start_time.day % 7 = 6
          /\ m.request.weekly_days = 1
    /\ \E m \in zoom :
          /\ m.cyc = 1
          /\ m.request.start_time.day % 7 = 3
          /\ m.request.weekly_days = 5

\* C25: every constructed ScheduledTuition ends strictly after it starts,
\* and its duration_minutes is the floor of its length in minutes and is
\* not negative.
C25_EndAfterStart ==
    \A i \in DOMAIN scheduled_tuitions :
        LET t == scheduled_tuitions[i]
        IN  /\ t.end_time > t.start_time
            /\ duration_minutes(t) >= 0
            /\ 2 * duration_minutes(t) <= t.end_time - t.start_time
            /\ t.end_time - t.start_time < 2 * (duration_minutes(t) + 1)

\* C30: there is never more than one DatabaseHandler instance and never
\* more than one pool was created, and a construction while the pool exists
\* changes neither the instance nor the pool.
C30_SingletonHandle ==
    /\ [](handler.instances <= 1 /\ handler.pools_created <= 1)
    /\ [][(handler.pool) => handler' = handler]_vars

\* DatabaseHandler() was called a second time while the pool existed
C30_Witness ==
    /\ constructions.calls = 2
    /\ constructions.with_pool = 1
    /\ handler.instances = 1
    /\ handler.pools_created = 1

\* C31: once another process has sent a notification (a run was inserted),
\* the worker eventually receives a trigger, unless it has ended.
C31_InsertIsDetected ==
    (sent > 0) ~> (trigger # NoTrigger \/ pc \in Exited)

\* C33: notifications that have reached the listener's connection are
\* eventually all returned by the listener, unless the worker has ended.
C33_NothingStranded ==
    (notifies # <<>> \/ pending # <<>>)
        ~> ((notifies = <<>> /\ pending = <<>>) \/ pc \in Exited)

\* the 'Tuition' entries of the latest valid run that a cycle can create
\* artifacts for
CreatableEntries ==
    LET id == fetch_latest_successful_run_id(runs, TRUE)
        data == fetch_timetable_by_run_id(runs, id, TRUE)
    IN  IF id = None \/ FilterRaises(data)
        THEN <<>>
        ELSE SelectSeq(FilterTuition(data), LAMBDA e : ~ParseRaises(e))

\* C32: when a cycle whose cleanup listed no artifact has ended, the
\* calendar holds one artifact of the cycle per 'Tuition' entry of the
\* latest valid run (stated for the cycles in which no gateway or store call
\* failed).
C32_EmptyCleanupStillCreates ==
    (pc = "listen" /\ last \in Ended /\ events_to_delete = <<>> /\ faults = 0)
        => Cardinality({e \in calendar : e.cyc = cycle})
              = Len(CreatableEntries)

\* C34: while a cycle is in its create loop, no artifact its cleanup listed
\* is in the calendar any more.
C34_CreateOnlyAfterRemoval ==
    pc = "create" =>
        \A i \in DOMAIN events_to_delete :
            \A e \in calendar : e.id # events_to_delete[i].id

\* the meetings the sync has called delete_meeting for
DeletedBySync == {mlog[k].meeting : k \in {j \in DOMAIN mlog : mlog[j].op = "delete"}}

\* C35: every deletion of an old meeting comes right after the update of
\* the same tuition's link to the new meeting, which comes right after the
\* creation of that meeting, so that after a failed creation or update no
\* deletion follows; and no stored link refers to a meeting the sync has
\* deleted.
C35_CreateUpdateDeleteOld ==
    /\ \A k \in DOMAIN mlog :
          mlog[k].op = "delete" =>
              /\ k >= 3
              /\ mlog[k - 1].op = "update"
              /\ mlog[k - 1].tuition = mlog[k].tuition
              /\ mlog[k - 2] = Op("create", mlog[k].tuition, mlog[k - 1].meeting)
              /\ mlog[k - 1].meeting # mlog[k].meeting
    /\ \A t \in DOMAIN tuitions : tuitions[t] \notin DeletedBySync

\* the old meeting of a tuition was deleted and is gone, the tuition's link
\* holds the new meeting, and a later tuition of the same sync kept its old
\* meeting because its update failed
C35_Witness ==
    /\ mpc = "m_done"
    /\ \E k \in DOMAIN mlog :
          /\ mlog[k].op = "delete"
          /\ \A m \in zoom : m.id # mlog[k].meeting
          /\ tuitions[mlog[k].tuition] = mlog[k - 1].meeting
          /\ \E m \in zoom : m.id = mlog[k - 1].meeting
    /\ \E t \in DOMAIN tuitions :
          /\ tuitions[t] = OldMeetingId(t)
          /\ \E m \in zoom : m.id = OldMeetingId(t)
          /\ \E k \in DOMAIN mlog : mlog[k].op = "create" /\ mlog[k].tuition = t

\* C36: when a cycle has run to the end of its create loop, the mapping
\* table holds as many rows of the cycle as the cycle reports successes.
C36_RowsMatchSuccessCount ==
    (pc = "listen" /\ last = "completed")
        => Cardinality({i \in DOMAIN mapping : mapping[i].cyc = cycle})
              = success_count

\* C37: the start time of every meeting created in the cycle, as submitted,
\* is not earlier than the time of its creation.
C37_SubmittedStartNotPast ==
    \A m \in zoom :
        m.cyc = 1 =>
            m.request.start_time.day * Day + m.request.start_time.tod >= m.now

\* C38: a cycle has created nothing when it lists the calendar, and a
\* listing that fails ends the cycle at once with the calendar and the
\* mapping table as they were.
C38_ListingFailureCreatesNothing ==
    /\ [](pc = "list" => \A e \in calendar : e.cyc # cycle)
    /\ [][(pc = "list" /\ faults' > faults)
            => /\ pc' = "listen"
               /\ calendar' = calendar
               /\ mapping' = mapping
               /\ nextId' = nextId]_vars

\* a cycle has ended at a listing that failed although the calendar holds an
\* artifact with the prefix, and the mapping table has its row
C38_Witness ==
    /\ pc = "listen"
    /\ last = "no_events"
    /\ \E e \in calendar : StartsWith(e.summary, TuitionPrefix)
    /\ mapping # <<>>
    /\ faults > 0

====
